---- MODULE Spec2Model ----
(***************************************************************************)
(* State-machine model of the WhatsApp gateway (src/unnamed/part_000):     *)
(* the session state manager (connect / status / disconnect and the        *)
(* transport event handlers) and the bulk dispatch drain loop.             *)
(*                                                                         *)
(* Node runs every handler to its next await atomically, so one action is  *)
(* one run of a handler from its entry (or from the await it resumes at)   *)
(* to its next await or its end.                                           *)
(***************************************************************************)
EXTENDS Integers, Sequences, FiniteSets

(* ------------------------------ bounds --------------------------------- *)
MaxSessions == 2
MaxBatches == 1
MaxItems == 2
MaxRenders == 1
MaxLogouts == 1
MaxOverlap == 2

(* ------------------------------ values --------------------------------- *)
\* the value of `client` before the first connect and after a disconnect
Null == 0

\* qrCodeData = null
NoToken == <<>>

\* raw login tokens the transport may emit with a qr event
RawTokens == {"XYZ"}

\* qrcode.toDataURL(qr): the data URI of the rendered image
toDataURL(raw) == <<"data:image/png;base64", raw>>

Statuses == {"DISCONNECTED", "CONNECTING", "CONNECTED", "ERROR"}

VARIABLES
    sessionStatus,   \* let sessionStatus
    qrCodeData,      \* let qrCodeData
    client,          \* let client: Null or the id of a created session
    nCreated,        \* number of `new Client(...)` executed so far
    sessions,        \* per created Client: phase of the transport, destroyed
    renders,         \* raw tokens whose qrcode.toDataURL callback is pending
    logouts,         \* disconnect handlers suspended at `await client.logout()`
    batches,         \* the drain loops started so far, in order of acceptance
    staleCalls,      \* kinds of command invoked on an already destroyed Client
    last             \* the handler that ran last and the response it sent

vars == <<sessionStatus, qrCodeData, client, nCreated, sessions, renders,
          logouts, batches, staleCalls, last>>

\* a step's record: which handler ran, the sessionStatus it found, the HTTP
\* status it answered with (0: no response, an event handler), and the
\* `success` field of the body (for an event handler: it did not throw)
Step(op, code, success) ==
    [op |-> op, from |-> sessionStatus, code |-> code, success |-> success]

\* phase "none": not created yet
NewSession == [phase |-> "starting", destroyed |-> FALSE]

\* client.destroy() on session s (s # Null)
Destroy(ss, s) == [ss EXCEPT ![s].destroyed = TRUE]

\* the command kinds recorded when a command is invoked on session s
Stale(ss, s, kind) == IF s # Null /\ ss[s].destroyed THEN {kind} ELSE {}

Init ==
    /\ sessionStatus = "DISCONNECTED"
    /\ qrCodeData = NoToken
    /\ client = Null
    /\ nCreated = 0
    /\ sessions = [s \in 1..MaxSessions |-> [phase |-> "none", destroyed |-> FALSE]]
    /\ renders = {}
    /\ logouts = 0
    /\ batches = <<>>
    /\ staleCalls = {}
    /\ last = [op |-> "listen", from |-> "DISCONNECTED", code |-> 0, success |-> TRUE]

(* ------------------------- session state manager ----------------------- *)

\* initializeWhatsApp line 19: the re-entry guard
ReentryGuard(status, cl) == status = "CONNECTING" /\ cl # Null

\* GET /connect line 90: only initialize if disconnected or in error
ShouldInitialize(status) == status \in {"DISCONNECTED", "ERROR"}

\* line 22 left out: the status stays what it was until an event changes it
StatusLeftStale(status) == status

\* initializeWhatsApp line 22: the status written before the Client is built
StatusOnInitialize(status) == "CONNECTING"

\* initializeWhatsApp(): guard, status, new Client, handlers, initialize()
initializeWhatsApp ==
    IF ReentryGuard(sessionStatus, client)
    THEN UNCHANGED <<sessionStatus, client, nCreated, sessions>>
    ELSE /\ nCreated < MaxSessions
         /\ sessionStatus' = StatusOnInitialize(sessionStatus)
         /\ nCreated' = nCreated + 1
         /\ client' = nCreated + 1
         /\ sessions' = [sessions EXCEPT ![nCreated + 1] = NewSession]

\* the connect handler without the guards of lines 19 and 90
ConnectUnguarded ==
    /\ IF sessionStatus = "CONNECTED"
       THEN /\ last' = Step("connect", 200, TRUE)
            /\ UNCHANGED <<sessionStatus, client, nCreated, sessions>>
       ELSE /\ nCreated < MaxSessions
            /\ sessionStatus' = "CONNECTING"
            /\ nCreated' = nCreated + 1
            /\ client' = nCreated + 1
            /\ sessions' = [sessions EXCEPT ![nCreated + 1] = NewSession]
            /\ last' = Step("connect", 202, TRUE)
    /\ UNCHANGED <<qrCodeData, renders, logouts, batches, staleCalls>>

\* GET /api/whatsapp/connect
Connect ==
    /\ IF sessionStatus = "CONNECTED"
       THEN /\ last' = Step("connect", 200, TRUE)
            /\ UNCHANGED <<sessionStatus, client, nCreated, sessions>>
       ELSE /\ IF ShouldInitialize(sessionStatus)
               THEN initializeWhatsApp
               ELSE UNCHANGED <<sessionStatus, client, nCreated, sessions>>
            /\ last' = Step("connect", 202, TRUE)
    /\ UNCHANGED <<qrCodeData, renders, logouts, batches, staleCalls>>

\* GET /api/whatsapp/status: the body of the response
StatusBody == [status |-> sessionStatus, qrCode |-> qrCodeData]

Status ==
    /\ last' = Step("status", 200, TRUE)
    /\ UNCHANGED <<sessionStatus, qrCodeData, client, nCreated, sessions,
                   renders, logouts, batches, staleCalls>>

\* a session that can still emit events: created, running, not destroyed
Emits(s) == sessions[s].phase \in {"starting", "ready"} /\ ~sessions[s].destroyed

\* client.on('qr'): starts the rendering of the raw token
OnQr(s, raw) ==
    /\ Emits(s) /\ sessions[s].phase = "starting"
    /\ raw \notin renders /\ Cardinality(renders) < MaxRenders
    /\ renders' = renders \cup {raw}
    /\ last' = Step("qr", 0, TRUE)
    /\ UNCHANGED <<sessionStatus, qrCodeData, client, nCreated, sessions,
                   logouts, batches, staleCalls>>

\* the callback of qrcode.toDataURL, lines 46-54
RenderDone(raw, err) ==
    /\ raw \in renders
    /\ renders' = renders \ {raw}
    /\ IF err
       THEN /\ sessionStatus' = "ERROR"
            /\ UNCHANGED qrCodeData
       ELSE /\ qrCodeData' = toDataURL(raw)
            /\ UNCHANGED sessionStatus
    /\ last' = Step(IF err THEN "render_error" ELSE "render_ok", 0, ~err)
    /\ UNCHANGED <<client, nCreated, sessions, logouts, batches, staleCalls>>

\* client.on('ready')
OnReady(s) ==
    /\ Emits(s) /\ sessions[s].phase = "starting"
    /\ sessions' = [sessions EXCEPT ![s].phase = "ready"]
    /\ sessionStatus' = "CONNECTED"
    /\ qrCodeData' = NoToken
    /\ last' = Step("ready", 0, TRUE)
    /\ UNCHANGED <<client, nCreated, renders, logouts, batches, staleCalls>>

\* client.on('disconnected'): `client` is the module variable, not the emitter;
\* with client = null, client.destroy() throws and line 67 is not reached
OnDisconnected(s) ==
    /\ Emits(s)
    /\ sessionStatus' = "DISCONNECTED"
    /\ IF client = Null
       THEN /\ sessions' = [sessions EXCEPT ![s].phase = "closed"]
            /\ UNCHANGED <<qrCodeData, staleCalls>>
            /\ last' = Step("disconnected", 0, FALSE)
       ELSE /\ sessions' = Destroy([sessions EXCEPT ![s].phase = "closed"], client)
            /\ staleCalls' = staleCalls \cup Stale(sessions, client, "destroy")
            /\ qrCodeData' = NoToken
            /\ last' = Step("disconnected", 0, TRUE)
    /\ UNCHANGED <<client, nCreated, renders, logouts, batches>>

\* client.on('auth_failure')
OnAuthFailure(s) ==
    /\ Emits(s) /\ sessions[s].phase = "starting"
    /\ sessions' = [sessions EXCEPT ![s].phase = "failed"]
    /\ sessionStatus' = "ERROR"
    /\ last' = Step("auth_failure", 0, TRUE)
    /\ UNCHANGED <<qrCodeData, client, nCreated, renders, logouts, batches,
                   staleCalls>>

\* client.initialize().catch(...), lines 75-82
OnInitFailure(s) ==
    /\ Emits(s) /\ sessions[s].phase = "starting"
    /\ sessionStatus' = "ERROR"
    /\ IF client # Null
       THEN /\ sessions' = Destroy([sessions EXCEPT ![s].phase = "failed"], client)
            /\ staleCalls' = staleCalls \cup Stale(sessions, client, "destroy")
       ELSE /\ sessions' = [sessions EXCEPT ![s].phase = "failed"]
            /\ UNCHANGED staleCalls
    /\ last' = Step("init_failure", 0, TRUE)
    /\ UNCHANGED <<qrCodeData, client, nCreated, renders, logouts, batches>>

\* the reset done only on the paths that do not throw (no finally block)
DisconnectNoFinally(how) ==
    IF how = "disconnect_failed"
    THEN /\ last' = Step(how, 500, FALSE)
         /\ UNCHANGED <<sessionStatus, client, qrCodeData>>
    ELSE /\ sessionStatus' = "DISCONNECTED"
         /\ client' = Null
         /\ qrCodeData' = NoToken
         /\ last' = Step(how, 200, TRUE)

\* POST /disconnect, the finally block, lines 137-143
DisconnectFinally(how) ==
    /\ sessionStatus' = "DISCONNECTED"
    /\ client' = Null
    /\ qrCodeData' = NoToken
    /\ last' = Step(how, 200, TRUE)

\* POST /disconnect up to `await client.logout()`, or to its end when the
\* condition of line 129 is false
Disconnect ==
    IF sessionStatus = "CONNECTED" /\ client # Null
    THEN /\ logouts < MaxLogouts
         /\ logouts' = logouts + 1
         /\ staleCalls' = staleCalls \cup Stale(sessions, client, "logout")
         /\ last' = Step("disconnect_logout", 0, TRUE)
         /\ UNCHANGED <<sessionStatus, qrCodeData, client, nCreated, sessions,
                        renders, batches>>
    ELSE /\ DisconnectFinally("disconnect_skipped")
         /\ UNCHANGED <<nCreated, sessions, renders, logouts, batches, staleCalls>>

\* `await client.logout()` settles: resolved, or rejected and caught
LogoutSettles(ok) ==
    /\ logouts > 0
    /\ logouts' = logouts - 1
    /\ DisconnectFinally(IF ok THEN "disconnect_ok" ELSE "disconnect_failed")
    /\ UNCHANGED <<nCreated, sessions, renders, batches, staleCalls>>

(* ------------------------- bulk dispatch pipeline ---------------------- *)

Digits == {"0", "1", "2", "3", "4", "5", "6", "7", "8", "9"}

\* phone.replace(/\D/g, ''): the digits of the string, in order
RECURSIVE StripNonDigits(_)
StripNonDigits(p) ==
    IF p = <<>> THEN <<>>
    ELSE IF Head(p) \in Digits
         THEN <<Head(p)>> \o StripNonDigits(Tail(p))
         ELSE StripNonDigits(Tail(p))

\* `${...}@c.us`
ChatId(phone) == StripNonDigits(phone) \o <<"@c.us">>

\* elements a JSON array `messages` can hold: null, an object whose phone is
\* not a string, objects with a phone string
NullItem == [kind |-> "null", phone |-> <<>>]
NoPhoneItem == [kind |-> "nophone", phone |-> <<>>]
PhoneItem(p) == [kind |-> "object", phone |-> p]
Phones == {<<"+", "1", "5">>, <<"-">>}
ItemValues == {NullItem, NoPhoneItem} \cup {PhoneItem(p) : p \in Phones}

RECURSIVE SeqsUpTo(_, _)
SeqsUpTo(S, n) ==
    IF n = 0 THEN {<<>>}
    ELSE LET shorter == SeqsUpTo(S, n - 1)
         IN shorter \cup {Append(q, x) : q \in {r \in shorter : Len(r) = n - 1}, x \in S}

\* values of req.body.messages
Body(kind, items) == [kind |-> kind, items |-> items]
Bodies ==
    {Body(k, <<>>) : k \in {"missing", "string", "object"}}
      \cup {Body("array", q) : q \in SeqsUpTo(ItemValues, MaxItems)}

\* line 105 without the Array.isArray test
InvalidOnlyIfMissing(m) == m.kind = "missing"

\* line 105: !messages || !Array.isArray(messages)
InvalidMessages(m) == m.kind = "missing" \/ m.kind # "array"

\* an entry of a drain loop's history
Entry(ev, i, s, chat) == [ev |-> ev, idx |-> i, session |-> s, chatId |-> chat]

Logged(b, e) == [b EXCEPT !.log = Append(@, e)]

\* the catch block, lines 119-121, for item i: it reads item.phone again, so
\* with a null item it throws and the loop's promise rejects
CatchAborts(item) == item.kind = "null"

\* the statements of the try block before the await, lines 114-116, for one
\* item with `client` = cl: "throws" (TypeError) or "awaits" (send issued)
TryOutcome(item, cl) ==
    IF item.kind # "object" THEN "throws"
    ELSE IF cl = Null THEN "throws"
    ELSE "awaits"

\* the for loop with sendMessage not awaited: every send is issued at once
RECURSIVE DrainNoAwait(_, _, _)
DrainNoAwait(b, i, cl) ==
    IF i > Len(b.items)
    THEN [b EXCEPT !.pc = "done", !.idx = i]
    ELSE LET item == b.items[i]
             b1 == Logged(b, Entry("attempt", i, cl, <<>>))
         IN IF TryOutcome(item, cl) = "awaits"
            THEN DrainNoAwait(Logged(b1, Entry("send", i, cl, ChatId(item.phone))),
                              i + 1, cl)
            ELSE IF CatchAborts(item)
                 THEN [b1 EXCEPT !.pc = "aborted", !.idx = i]
                 ELSE DrainNoAwait(Logged(b1, Entry("failed", i, cl, <<>>)), i + 1, cl)

\* the for loop with the Client captured at its first attempt: later items
\* use that Client, not the module variable
RECURSIVE DrainCaptured(_, _, _)
DrainCaptured(b, i, cl) ==
    LET firsts == {p \in 1..Len(b.log) : b.log[p].ev = "attempt"}
        own == IF firsts = {} THEN cl
               ELSE b.log[CHOOSE p \in firsts : \A q \in firsts : p <= q].session
    IN IF i > Len(b.items)
       THEN [b EXCEPT !.pc = "done", !.idx = i]
       ELSE LET item == b.items[i]
                b1 == Logged(b, Entry("attempt", i, own, <<>>))
            IN IF TryOutcome(item, own) = "awaits"
               THEN [Logged(b1, Entry("send", i, own, ChatId(item.phone)))
                        EXCEPT !.pc = "sending", !.idx = i]
               ELSE IF CatchAborts(item)
                    THEN [b1 EXCEPT !.pc = "aborted", !.idx = i]
                    ELSE DrainCaptured(Logged(b1, Entry("failed", i, own, <<>>)),
                                       i + 1, cl)

\* the for loop from item i on, run to its next await, its end or its abort
RECURSIVE Drain(_, _, _)
Drain(b, i, cl) ==
    IF i > Len(b.items)
    THEN [b EXCEPT !.pc = "done", !.idx = i]
    ELSE LET item == b.items[i]
             b1 == Logged(b, Entry("attempt", i, cl, <<>>))
         IN IF TryOutcome(item, cl) = "awaits"
            THEN [Logged(b1, Entry("send", i, cl, ChatId(item.phone)))
                     EXCEPT !.pc = "sending", !.idx = i]
            ELSE IF CatchAborts(item)
                 THEN [b1 EXCEPT !.pc = "aborted", !.idx = i]
                 ELSE Drain(Logged(b1, Entry("failed", i, cl, <<>>)), i + 1, cl)

\* the session a suspended loop is awaiting a send of
Awaited(b) == b.log[Len(b.log)].session

\* commands on destroyed sessions made by a run of the loop
DrainStale(b) ==
    IF b.pc = "sending" THEN Stale(sessions, Awaited(b), "send") ELSE {}

\* the loop awaited before the response: started with nothing acknowledged
AcceptAfterDrain(m) ==
    Drain([items |-> m.items, idx |-> 0, pc |-> "acked", log |-> <<>>], 1, client)

\* line 109 and the start of the detached loop, lines 111-124
Accept(m) ==
    Drain([items |-> m.items, idx |-> 0, pc |-> "acked",
           log |-> <<Entry("ack", 0, Null, <<>>)>>], 1, client)

\* line 101 testing for DISCONNECTED only
NotConnectedLoose(status) == status = "DISCONNECTED"

\* line 101: sessionStatus !== 'CONNECTED'
NotConnected(status) == status # "CONNECTED"

\* a drain loop that has not stopped
Running(b) == b.pc \in {"sending", "pausing"}

\* the handler with a single-in-flight guard: a submit is refused while a
\* drain loop is running
SendBulkSingleFlight(m, cap) ==
    /\ IF NotConnected(sessionStatus)
       THEN /\ last' = Step("send_bulk_not_connected", 400, FALSE)
            /\ UNCHANGED <<batches, staleCalls>>
       ELSE IF InvalidMessages(m)
       THEN /\ last' = Step("send_bulk_invalid", 400, FALSE)
            /\ UNCHANGED <<batches, staleCalls>>
       ELSE IF \E k \in 1..Len(batches) : Running(batches[k])
       THEN /\ last' = Step("send_bulk_busy", 400, FALSE)
            /\ UNCHANGED <<batches, staleCalls>>
       ELSE /\ Len(batches) < cap
            /\ batches' = Append(batches, Accept(m))
            /\ staleCalls' = staleCalls \cup DrainStale(Accept(m))
            /\ last' = Step("send_bulk_accepted", 200, TRUE)
    /\ UNCHANGED <<sessionStatus, qrCodeData, client, nCreated, sessions,
                   renders, logouts>>

\* POST /api/whatsapp/send-bulk, with at most cap batches accepted in a run
SendBulkUpTo(m, cap) ==
    /\ IF NotConnected(sessionStatus)
       THEN /\ last' = Step("send_bulk_not_connected", 400, FALSE)
            /\ UNCHANGED <<batches, staleCalls>>
       ELSE IF InvalidMessages(m)
       THEN /\ last' = Step("send_bulk_invalid", 400, FALSE)
            /\ UNCHANGED <<batches, staleCalls>>
       ELSE /\ Len(batches) < cap
            /\ batches' = Append(batches, Accept(m))
            /\ staleCalls' = staleCalls \cup DrainStale(Accept(m))
            /\ last' = Step("send_bulk_accepted", 200, TRUE)
    /\ UNCHANGED <<sessionStatus, qrCodeData, client, nCreated, sessions,
                   renders, logouts>>

\* POST /api/whatsapp/send-bulk
SendBulk(m) == SendBulkUpTo(m, MaxBatches)

\* a send can only succeed on a session that is up
CanDeliver(s) == sessions[s].phase = "ready" /\ ~sessions[s].destroyed

\* `await client.sendMessage(...)` of batch k settles
SendSettles(k, ok) ==
    /\ k \in 1..Len(batches)
    /\ batches[k].pc = "sending"
    /\ ok => CanDeliver(Awaited(batches[k]))
    /\ LET b == batches[k]
           i == b.idx
           s == Awaited(b)
           after == IF ok
                    THEN [Logged(Logged(b, Entry("sent", i, s, <<>>)),
                                 Entry("pause", i, s, <<>>))
                             EXCEPT !.pc = "pausing"]
                    ELSE Drain(Logged(b, Entry("failed", i, s, <<>>)), i + 1, client)
       IN /\ batches' = [batches EXCEPT ![k] = after]
          /\ staleCalls' = staleCalls \cup (IF ok THEN {} ELSE DrainStale(after))
    /\ last' = Step(IF ok THEN "send_ok" ELSE "send_failed", 0, ok)
    /\ UNCHANGED <<sessionStatus, qrCodeData, client, nCreated, sessions,
                   renders, logouts>>

\* the timer of line 118 fires for batch k
PauseElapses(k) ==
    /\ k \in 1..Len(batches)
    /\ batches[k].pc = "pausing"
    /\ LET after == Drain(batches[k], batches[k].idx + 1, client)
       IN /\ batches' = [batches EXCEPT ![k] = after]
          /\ staleCalls' = staleCalls \cup DrainStale(after)
    /\ last' = Step("pause_elapsed", 0, TRUE)
    /\ UNCHANGED <<sessionStatus, qrCodeData, client, nCreated, sessions,
                   renders, logouts>>

Next ==
    \/ Connect
    \/ Status
    \/ \E s \in 1..MaxSessions, raw \in RawTokens : OnQr(s, raw)
    \/ \E raw \in RawTokens, err \in BOOLEAN : RenderDone(raw, err)
    \/ \E s \in 1..MaxSessions : OnReady(s)
    \/ \E s \in 1..MaxSessions : OnDisconnected(s)
    \/ \E s \in 1..MaxSessions : OnAuthFailure(s)
    \/ \E s \in 1..MaxSessions : OnInitFailure(s)
    \/ Disconnect
    \/ \E ok \in BOOLEAN : LogoutSettles(ok)
    \/ \E m \in Bodies : SendBulk(m)
    \/ \E k \in 1..MaxBatches, ok \in BOOLEAN : SendSettles(k, ok)
    \/ \E k \in 1..MaxBatches : PauseElapses(k)

Spec == Init /\ [][Next]_vars

\* the session state manager alone: no batch is ever submitted
NextSession ==
    \/ Connect
    \/ Status
    \/ \E s \in 1..MaxSessions, raw \in RawTokens : OnQr(s, raw)
    \/ \E raw \in RawTokens, err \in BOOLEAN : RenderDone(raw, err)
    \/ \E s \in 1..MaxSessions : OnReady(s)
    \/ \E s \in 1..MaxSessions : OnDisconnected(s)
    \/ \E s \in 1..MaxSessions : OnAuthFailure(s)
    \/ \E s \in 1..MaxSessions : OnInitFailure(s)
    \/ Disconnect
    \/ \E ok \in BOOLEAN : LogoutSettles(ok)

SpecSession == Init /\ [][NextSession]_vars

\* a phone string with digits and other characters
OverlapPhone == <<"+", "1", "5">>

\* submits that overlap: up to MaxOverlap batches of well-formed items
OverlapBodies ==
    {Body("string", <<>>)}
      \cup {Body("array", q) : q \in SeqsUpTo({PhoneItem(OverlapPhone)}, MaxItems)}

\* the handlers an overlap involves: a session is brought up, submits are
\* accepted, the loops run, the session is taken down
NextOverlap ==
    \/ Connect
    \/ \E s \in 1..MaxSessions : OnReady(s)
    \/ \E s \in 1..MaxSessions : OnDisconnected(s)
    \/ Disconnect
    \/ \E ok \in BOOLEAN : LogoutSettles(ok)
    \/ \E m \in OverlapBodies : SendBulkUpTo(m, MaxOverlap)
    \/ \E k \in 1..MaxOverlap, ok \in BOOLEAN : SendSettles(k, ok)
    \/ \E k \in 1..MaxOverlap : PauseElapses(k)

SpecOverlap == Init /\ [][NextOverlap]_vars

(* ------------------------------- claims -------------------------------- *)

DisconnectDone == last.op \in {"disconnect_skipped", "disconnect_ok", "disconnect_failed"}

\* C1: whenever the disconnect handler has just finished (logout not called,
\* resolved, or rejected), sessionStatus is DISCONNECTED, the login token is
\* null, the client handle is null, and the response was 200 with success.
C1_DisconnectPostcondition ==
    DisconnectDone =>
        /\ sessionStatus = "DISCONNECTED"
        /\ qrCodeData = NoToken
        /\ client = Null
        /\ last.code = 200 /\ last.success

\* a disconnect issued while CONNECTED whose logout was rejected has finished
C1_Witness ==
    /\ last.op = "disconnect_failed" /\ last.code = 200
    /\ sessionStatus = "DISCONNECTED"
    /\ nCreated > 0

\* C2: a connect handled while sessionStatus is CONNECTING or CONNECTED
\* creates no session: the number of sessions created, the client handle and
\* the sessions are what they were before the step.
C2_ConnectIdempotent ==
    [][(last'.op = "connect" /\ sessionStatus \in {"CONNECTING", "CONNECTED"})
          => (nCreated' = nCreated /\ client' = client /\ sessions' = sessions
              /\ sessionStatus' = sessionStatus)]_vars

\* a connect was answered "already connected" with one session created
C2_Witness ==
    /\ last.op = "connect" /\ last.from = "CONNECTED" /\ last.code = 200
    /\ nCreated = 1 /\ client = 1

\* C3: a connect handled while sessionStatus is DISCONNECTED or ERROR ends,
\* in the same step, with sessionStatus CONNECTING and the client handle on
\* a new session from which no event has come yet; and a connect handled
\* right after a connect creates no session.
C3_ConnectSetsConnecting ==
    [][/\ (last'.op = "connect" /\ sessionStatus \in {"DISCONNECTED", "ERROR"})
            => /\ sessionStatus' = "CONNECTING"
               /\ nCreated' = nCreated + 1
               /\ client' = nCreated'
               /\ sessions'[client'] = NewSession
               /\ last'.code = 202
       /\ (last'.op = "connect" /\ last.op = "connect")
            => nCreated' = nCreated]_vars

\* after a failed first session, a connect created session 2, and a second
\* connect arrived before any event of session 2 and found CONNECTING
C3_Witness ==
    /\ last.op = "connect" /\ last.from = "CONNECTING"
    /\ nCreated = 2 /\ client = 2
    /\ sessions[1].phase = "failed"
    /\ sessions[2] = NewSession
    /\ renders = {} /\ qrCodeData = NoToken
    /\ sessionStatus = "CONNECTING"

\* C4: the login token is non-null only while sessionStatus is CONNECTING.
C4_TokenOnlyWhileConnecting ==
    StatusBody.qrCode # NoToken => StatusBody.status = "CONNECTING"

\* C5: when the rendering of a login token has just succeeded, a status poll
\* gives CONNECTING together with the rendered token.
C5_RenderedTokenWhileConnecting ==
    last.op = "render_ok" =>
        /\ StatusBody.status = "CONNECTING"
        /\ \E raw \in RawTokens : StatusBody.qrCode = toDataURL(raw)

\* the state the session manager keeps, and the transport behind it
SessionState == <<sessionStatus, qrCodeData, client, nCreated, sessions, renders, logouts>>

\* positions of a history whose entry is of one of the kinds evs
At(L, evs) == {p \in 1..Len(L) : L[p].ev \in evs}

\* C6: a send-bulk handled while sessionStatus is not CONNECTED, or with a
\* messages value that is not an array, answers 400 with success false,
\* starts no drain loop (so no send is attempted) and leaves the session
\* state unchanged; an empty array handled while CONNECTED answers 200 and
\* its drain loop ends without any attempt.
C6_RejectedSubmitDoesNothing ==
    [][last'.op \in {"send_bulk_not_connected", "send_bulk_invalid", "send_bulk_accepted"}
         => LET Rejected == /\ last'.code = 400 /\ ~last'.success
                            /\ batches' = batches
                            /\ staleCalls' = staleCalls
                            /\ SessionState' = SessionState
                EmptyAccepted == /\ last'.code = 200 /\ last'.success
                                 /\ Len(batches') = Len(batches) + 1
                                 /\ batches'[Len(batches')].pc = "done"
                                 /\ At(batches'[Len(batches')].log, {"attempt", "send"}) = {}
                                 /\ SessionState' = SessionState
            IN IF sessionStatus # "CONNECTED"
               THEN Rejected
               ELSE \A m \in Bodies :
                       SendBulk(m) => /\ m.kind # "array" => Rejected
                                      /\ m = Body("array", <<>>) => EmptyAccepted]_vars

\* an empty batch was accepted and drained without an attempt, and then a
\* submit whose messages is not an array was rejected while CONNECTED
C6_Witness ==
    /\ last.op = "send_bulk_invalid" /\ last.from = "CONNECTED" /\ last.code = 400
    /\ Len(batches) = 1
    /\ batches[1].items = <<>> /\ batches[1].pc = "done"
    /\ At(batches[1].log, {"attempt", "send"}) = {}

\* C7: once a drain loop has stopped, every item of its batch has had
\* exactly one attempt, whatever failed.
C7_OneAttemptPerItem ==
    \A k \in 1..Len(batches) :
        batches[k].pc \in {"done", "aborted"} =>
            \A i \in 1..Len(batches[k].items) :
                Cardinality({p \in At(batches[k].log, {"attempt"}) :
                                batches[k].log[p].idx = i}) = 1

\* C8: in every drain loop the attempts are made in input order, each item's
\* attempt comes after the previous item's send has completed or failed,
\* each send carries the chat id of its own item, and at most one send is
\* outstanding.
C8_SequentialInOrder ==
    \A k \in 1..Len(batches) :
        LET L == batches[k].log
            Settled(p) == \E r \in At(L, {"sent", "failed"}) : r > p /\ L[r].idx = L[p].idx
        IN /\ \A q \in At(L, {"attempt"}) :
                 /\ L[q].idx = Cardinality({p \in At(L, {"attempt"}) : p <= q})
                 /\ \A i \in 1..(L[q].idx - 1) :
                       \E r \in At(L, {"sent", "failed"}) : r < q /\ L[r].idx = i
           /\ \A p \in At(L, {"send"}) :
                 L[p].chatId = ChatId(batches[k].items[L[p].idx].phone)
           /\ Cardinality({p \in At(L, {"send"}) : ~Settled(p)}) <= 1

\* the send of item 1 has completed, the pause has elapsed and the send of
\* item 2 is outstanding
C8_Witness ==
    \E k \in 1..Len(batches) :
        LET L == batches[k].log
        IN /\ batches[k].pc = "sending" /\ batches[k].idx = 2
           /\ \E p \in At(L, {"sent"}) : L[p].idx = 1
           /\ \E p \in At(L, {"send"}) : L[p].idx = 2

\* C9: between any two send attempts of a drain loop there is a pause.
C9_PauseBetweenSends ==
    \A k \in 1..Len(batches) :
        LET L == batches[k].log
        IN \A p, q \in At(L, {"send"}) :
              p < q => \E r \in At(L, {"pause"}) : p < r /\ r < q

\* C10: the history of every drain loop starts with the acknowledgment, so
\* every attempt comes after it; and when the handler has just answered, it
\* answered 200 and no send of the new batch has completed: a send that was
\* issued is still outstanding.
C10_AckBeforeFirstAttempt ==
    /\ \A k \in 1..Len(batches) : At(batches[k].log, {"ack"}) = {1}
    /\ last.op = "send_bulk_accepted" =>
          /\ last.code = 200 /\ last.success
          /\ Len(batches) > 0
          /\ LET b == batches[Len(batches)]
             IN /\ At(b.log, {"sent", "pause"}) = {}
                /\ At(b.log, {"send"}) # {} => b.pc = "sending"

\* the handler has just answered 200 and the first send is outstanding
C10_Witness ==
    /\ last.op = "send_bulk_accepted" /\ last.code = 200
    /\ Len(batches) > 0
    /\ LET b == batches[Len(batches)]
       IN /\ b.pc = "sending" /\ b.idx = 1
          /\ Len(b.log) = 3 /\ b.log[3].ev = "send"

\* the sessions that have been created
Created == {s \in 1..MaxSessions : sessions[s].phase # "none"}

\* the sessions that are live: created and not destroyed
Live == {s \in Created : ~sessions[s].destroyed}

\* C11: at most one session is live (created and not yet destroyed) at any
\* time.
C11_AtMostOneLiveSession == Cardinality(Live) <= 1

\* C12: the client handle never refers to a destroyed session, and no
\* command (send, logout, destroy) has been invoked on a destroyed session.
C12_NoCommandOnDestroyed ==
    /\ client # Null => ~sessions[client].destroyed
    /\ staleCalls = {}

\* C13: handling a disconnected event of session s ends with sessionStatus
\* DISCONNECTED and the login token null, with s destroyed and every other
\* session destroyed only if it was before.
C13_DisconnectedEventPostcondition ==
    [][\A s \in 1..MaxSessions :
         OnDisconnected(s) =>
            /\ sessionStatus' = "DISCONNECTED"
            /\ qrCodeData' = NoToken
            /\ sessions'[s].destroyed
            /\ \A o \in 1..MaxSessions \ {s} :
                   sessions'[o].destroyed = sessions[o].destroyed]_vars

\* a drain loop that met a disconnect or a connect: one of its attempts found
\* another handle than its first attempt did
Disturbed(b) ==
    \E p, q \in At(b.log, {"attempt"}) : b.log[p].session # b.log[q].session

\* C14: a drain loop that met a disconnect or a new connect is never
\* aborted: every attempt that found no session is followed by a recorded
\* failure of its item, and once the loop has stopped every item of the
\* batch has had exactly one attempt.
C14_DisturbedLoopCompletes ==
    \A k \in 1..Len(batches) :
        LET b == batches[k]
        IN Disturbed(b) =>
             /\ b.pc # "aborted"
             /\ b.pc = "done" =>
                  /\ \A i \in 1..Len(b.items) :
                        \E p \in At(b.log, {"attempt"}) : b.log[p].idx = i
                  /\ \A p \in At(b.log, {"attempt"}) :
                        b.log[p].session = Null =>
                           \E r \in At(b.log, {"failed"}) : b.log[r].idx = b.log[p].idx

\* the attempts of a history are for items 1, 2, ... in this order
InInputOrder(L) ==
    \A q \in At(L, {"attempt"}) :
        L[q].idx = Cardinality({p \in At(L, {"attempt"}) : p <= q})

\* C15: a submit of an array handled while CONNECTED is accepted whatever
\* drain loops are running: it answers 200 and starts a loop of its own on
\* the current handle, leaving the other loops as they are; and every loop
\* keeps the input order of its own batch.
C15_NoMutualExclusion ==
    [][/\ (last'.op \in {"send_bulk_not_connected", "send_bulk_invalid",
                         "send_bulk_busy", "send_bulk_accepted"}
             /\ sessionStatus = "CONNECTED")
            => \A m \in OverlapBodies :
                 (m.kind = "array" /\ SendBulkUpTo(m, MaxOverlap))
                   => /\ last'.code = 200 /\ last'.success
                      /\ Len(batches') = Len(batches) + 1
                      /\ \A k \in 1..Len(batches) : batches'[k] = batches[k]
                      /\ batches'[Len(batches')].items = m.items
                      /\ \A p \in At(batches'[Len(batches')].log, {"attempt"}) :
                            batches'[Len(batches')].log[p].session = client
       /\ \A k \in 1..Len(batches') : InInputOrder(batches'[k].log)]_vars

\* two drain loops are running at once on the same session, and the second
\* batch is already at its item 2 while the first is still at its item 1
C15_Witness ==
    /\ Len(batches) = 2
    /\ batches[1].pc = "sending" /\ batches[1].idx = 1
    /\ batches[2].pc = "sending" /\ batches[2].idx = 2
    /\ Awaited(batches[1]) = Awaited(batches[2])
    /\ Awaited(batches[1]) # Null

\* C16: an item whose phone has no digit is never sent: the history of its
\* batch holds no send for it, and once its attempt is over a failure is
\* recorded for it.
C16_EmptyDestinationNotSent ==
    \A k \in 1..Len(batches) :
        LET b == batches[k]
        IN \A i \in 1..Len(b.items) :
              (b.items[i].kind = "object" /\ StripNonDigits(b.items[i].phone) = <<>>)
                 => /\ \A p \in At(b.log, {"send"}) : b.log[p].idx # i
                    /\ (\E p \in At(b.log, {"attempt"}) : b.log[p].idx = i)
                          => \E r \in At(b.log, {"failed"}) : b.log[r].idx = i

\* C17: while sessionStatus is CONNECTED the client handle is non-null and
\* refers to a session that has emitted ready.
C17_ConnectedHasSession ==
    sessionStatus = "CONNECTED" =>
        /\ client # Null
        /\ sessions[client].phase = "ready"

\* C18: an event (ready, disconnected, auth-failure, initialization failure)
\* of a session that is not the current handle changes neither
\* sessionStatus, nor the login token, nor the handle, nor whether the
\* session of the current handle is destroyed.
C18_StaleEventsIgnored ==
    [][\A s \in 1..MaxSessions :
         (s # client /\ (OnReady(s) \/ OnDisconnected(s) \/ OnAuthFailure(s)
                           \/ OnInitFailure(s)))
            => /\ UNCHANGED <<sessionStatus, qrCodeData, client>>
               /\ client # Null => sessions'[client] = sessions[client]]_vars

\* the entries of kinds evs that a step has added to the history of batch k
NewAt(k, evs) ==
    {p \in At(batches'[k].log, evs) :
        p > (IF k <= Len(batches) THEN Len(batches[k].log) ELSE 0)}

\* C19 as claimed: every send is issued while sessionStatus is CONNECTED.
C19_SendsOnlyWhileConnected ==
    [][\A k \in 1..Len(batches') :
         NewAt(k, {"send"}) # {} => sessionStatus = "CONNECTED"]_vars

\* C19 as amended: a batch is accepted, and its first attempt made, only
\* while sessionStatus is CONNECTED; a loop that resumes does not look at
\* sessionStatus: for each item it attempts, a send is issued exactly when
\* the client handle is non-null and the item is an object with a phone
\* string, so no send reaches a Transport Client while the handle is null.
C19_SendsFollowHandleNotStatus ==
    [][/\ Len(batches') > Len(batches) => sessionStatus = "CONNECTED"
       /\ \A k \in 1..Len(batches') :
             \A p \in NewAt(k, {"attempt"}) :
                LET i == batches'[k].log[p].idx
                IN (\E q \in NewAt(k, {"send"}) : batches'[k].log[q].idx = i)
                     <=> (client # Null /\ batches'[k].items[i].kind = "object")]_vars

\* a loop has just resumed and issued the send of its item 2 while
\* sessionStatus is not CONNECTED
C19_Witness ==
    /\ last.op \in {"send_failed", "pause_elapsed"}
    /\ sessionStatus # "CONNECTED"
    /\ Len(batches) = 1
    /\ batches[1].pc = "sending" /\ batches[1].idx = 2

\* C20 as claimed: all the sends of a batch go to one session.
C20_OneSessionPerBatch ==
    \A k \in 1..Len(batches) :
        \A p, q \in At(batches[k].log, {"send"}) :
            batches[k].log[p].session = batches[k].log[q].session

\* C20 as amended: every attempt of a batch is made on the client handle
\* that is current when the attempt is made, so after a disconnect and a
\* reconnect during the drain the remaining items go to the new session.
C20_SendsGoToCurrentHandle ==
    [][\A k \in 1..Len(batches') :
         \A p \in NewAt(k, {"attempt", "send"}) :
            batches'[k].log[p].session = client]_vars

\* the send of item 1 went to session 1 and, after a disconnect and a
\* reconnect, the send of item 2 went to session 2
C20_Witness ==
    \E k \in 1..Len(batches) :
        LET L == batches[k].log
        IN /\ \E p \in At(L, {"send"}) : L[p].idx = 1 /\ L[p].session = 1
           /\ \E q \in At(L, {"send"}) : L[q].idx = 2 /\ L[q].session = 2

====
